---- MODULE Spec2Model ----
(***************************************************************************)
(* Model of ModmailBot (src/bot.py): block evaluation (_process_blocked),  *)
(* inbound relay (process_modmail) and startup recovery of pending         *)
(* closures (on_ready).  Every coroutine is cut at its awaits: one action  *)
(* resumes a handler from the await it is suspended at, runs the           *)
(* synchronous code up to the next await and issues that await's effect.   *)
(* ThreadManager/Thread (core.thread) and ConfigManager (core.config) are  *)
(* not part of src/ and are modelled from the specification.               *)
(***************************************************************************)
EXTENDS Integers, FiniteSets, Sequences, TLC

\* ---------------------------------------------------------------- bounds
MaxTime == 2
NumHandlers == 2

Senders == {1, 2}
Handlers == 1..NumHandlers

\* ------------------------------------------------------- block reasons
\* A stored reason is a string in the code.  Only two things are ever read
\* back from it: its prefix (str.startswith) and a trailing %<iso time>%
\* (re.search(r"%(.+?)%$")).  A reason is modelled by these two parts; end
\* is NoEnd when the text has no trailing %...%.
NoEnd == -1
NoEntry == [prefix |-> "", end |-> NoEnd]
NewAccountReason == [prefix |-> "System Message: New Account.", end |-> NoEnd]
RecentlyJoinedReason == [prefix |-> "System Message: Recently Joined.", end |-> NoEnd]
OperatorReason(e) == [prefix |-> "operator", end |-> e]
BlockEnds == {2}
StoredReasons ==
    {NewAccountReason, RecentlyJoinedReason, OperatorReason(NoEnd)}
        \cup {OperatorReason(e) : e \in BlockEnds}

\* A member's joined_at, or NoJoin when the author has no such attribute.
NoJoin == -1
\* account_age / guild_age config value when unset.
Unset == -1

\* A persisted closure (config["closures"][recipient_id]); NoClosure when the
\* recipient has none.  auto_close is "absent" in records written before the
\* key existed (items.get("auto_close", False), line 431).
NoClosure == [time |-> -1, closer_id |-> 0, silent |-> FALSE,
              delete_channel |-> FALSE, message |-> "", auto_close |-> "absent"]
ClosureRecord(t, k) ==
    CASE k = 1 -> [time |-> t, closer_id |-> 7, silent |-> FALSE,
                   delete_channel |-> TRUE, message |-> "bye", auto_close |-> "absent"]
      [] OTHER -> [time |-> t, closer_id |-> 8, silent |-> TRUE,
                   delete_channel |-> FALSE, message |-> "", auto_close |-> "true"]

\* An event as on_message, on_message_edit or on_guild_channel_delete sees
\* it, and what the handler did with it.  author: the sender, or the operator
\* who wrote in or deleted a channel; where: "dm" or "guild"; chan: the id of
\* the guild channel; kind: what the message or the deleted channel is; flag:
\* the relay channel holds the relayed copy (edit), or the audit log names
\* the bot itself (deletion).
\* call: the Thread.close or thread.reply call the handler made, if any.
NoCall == [closer |-> 0, silent |-> FALSE, delete_channel |-> FALSE]
NoEvent == [handler |-> "", is_bot |-> FALSE, author |-> 0, where |-> "",
            chan |-> 0, kind |-> "", flag |-> FALSE, action |-> "",
            call |-> NoCall]

VARIABLES
    now,          \* datetime.utcnow()
    connected,    \* self._connected
    logged_out,   \* self.logout() was called (on_connect, line 356)
    whitelist,    \* config["blocked_whitelist"]
    blocked,      \* config["blocked"] (the cache): sender -> reason | NoEntry
    blocked_db,   \* config["blocked"] as last written to the database
    account_age,  \* config["account_age"]
    guild_age,    \* config["guild_age"]
    created_at,   \* author.created_at, per sender
    joined_at,    \* author.joined_at, per sender
    hs,           \* one record per message handler (on_message task)
    threads,      \* ThreadManager cache: set of [id, recipient]
    channels,     \* relay channels of the main category: set of [id, recipient]
    lock,         \* find_or_create's per-recipient creation lock: holder or 0
    relayed,      \* inbound messages forwarded: set of [msg, chan]
    closures,     \* config["closures"] (the cache): recipient -> record
    closures_db,  \* config["closures"] as last written to the database
    timers,       \* armed in-process close timers: set of [recipient, time]
    ready,        \* the on_ready task
    close_calls,  \* Thread.close calls made by on_ready
    closed,       \* executed closes: set of [recipient, chan, by]
    recipient_thread_close,  \* config["recipient_thread_close"]
    rx,           \* the last reaction event handled and what it led to
    ids,          \* config cache: log_channel_id, main_category_id, modmail_guild_id
    ids_db,       \* the same keys as last written to the database
    live,         \* guilds, categories and text channels that exist
    reply_without_command,  \* config["reply_without_command"]
    ev            \* the last message, edit or channel deletion handled and what it led to

envVars == <<whitelist, created_at, joined_at>>
ageVars == <<account_age, guild_age>>
reactVars == <<recipient_thread_close, rx>>
lookupVars == <<ids, ids_db, live>>
routeVars == <<reply_without_command, ev>>
sideVars == <<reactVars, lookupVars, routeVars>>
blockVars == <<blocked, blocked_db>>
closureVars == <<closures, closures_db, timers>>
startVars == <<connected, logged_out, ready, close_calls>>
vars == <<now, envVars, ageVars, blockVars, closureVars, startVars, hs,
          threads, channels, lock, relayed, closed, sideVars>>

IdleHandler ==
    [pc |-> "idle", author |-> 0, t |-> 0, seen |-> NoEntry, branch |-> "",
     changed |-> FALSE, notice |-> FALSE, reaction |-> "", result |-> "",
     chan |-> 0]

\* ConfigManager.remove(key): the key is reset in the cache and the value it
\* held is returned.
ConfigRemoved == "unset"
RemoveReturns(previous) == previous

\* a stored threshold that isodate.parse_duration rejects
Malformed == -2

\* lines 509-531: the local after the parse; on ISO8601Error it is what
\* config.remove(key) returns
ParsedAge(v) == IF v = Malformed THEN RemoveReturns(v) ELSE v

\* lines 519, 531: config.remove(key) resets the key in the cache
AgeAfterParse(v) == IF v = Malformed THEN Unset ELSE v

\* lines 536-548: datetime + value; a value that is no Duration raises
\* TypeError, and only ValueError is handled
AgeError(s) ==
    \/ ParsedAge(account_age) = Malformed
    \/ joined_at[s] # NoJoin /\ ParsedAge(guild_age) = Malformed

\* isodate.Duration() when the config value is None (lines 504-507).
Duration(age) == IF age = Unset THEN 0 ELSE age

\* lines 536-540: message.author.created_at + account_age
MinAccountAge(s) == created_at[s] + Duration(account_age)

\* mutant of MinGuildAge: guild_age is added to `now` without a joined_at
MinGuildAgeNoneAsNow(s, t) ==
    (IF joined_at[s] = NoJoin THEN t ELSE joined_at[s]) + Duration(guild_age)

\* lines 534, 542-545: min_guild_age stays `now` without a joined_at
MinGuildAge(s, t) ==
    IF joined_at[s] = NoJoin THEN t ELSE joined_at[s] + Duration(guild_age)

\* str.startswith on the stored reason (lines 563, 586, 598-600)
StartsWithNewAccount(r) == r.prefix = "System Message: New Account."
StartsWithRecentlyJoined(r) == r.prefix = "System Message: Recently Joined."

\* ConfigManager.update(): the cache is written to the database.
ConfigUpdate(b) == b

\* mutant of Flushed: the cache is not written back
NotFlushed(db, mem) == db

\* await self.config.update() (lines 480, 489, 617): the database copy after
\* the call, given the copy before it and the cache.
Flushed(db, mem) == ConfigUpdate(mem)

\* ------------------------------------------------- _process_blocked
\* mutant of IsWhitelisted: the id is never found in the list (int against str)
IsWhitelistedNever(s) == FALSE

\* line 486: str(message.author.id) in self.blocked_whitelisted_users
IsWhitelisted(s) == s \in whitelist

\* an if/elif chain that ends in the guild arm
EvalBranchAgesOnly(s, t) ==
    IF MinAccountAge(s) > t THEN "account" ELSE "guild"

\* lines 550, 573, 596, 614: which arm of the if/elif chain is taken
EvalBranch(s, t) ==
    IF MinAccountAge(s) > t THEN "account"
    ELSE IF MinGuildAge(s, t) > t THEN "guild"
    ELSE IF blocked[s] # NoEntry THEN "entry"
    ELSE "clear"

\* mutant of EnsureEntry: the stored reason is overwritten
EnsureEntryOverwrites(entry, new_reason) == new_reason

\* lines 556-561 / 579-584: the entry is created only when there is none
EnsureEntry(entry, new_reason) == IF entry = NoEntry THEN new_reason ELSE entry

\* mutant of NoticeCondition: the notice is sent on every rejected message
NoticeAlways(same_kind, changed) == TRUE

\* line 563 / 586: reason.startswith(<this kind>) or changed
NoticeCondition(same_kind, changed) == same_kind \/ changed

\* lines 605-610: a trailing %time% that is not after now
ExpiryElapsed(reason, t) == reason.end # NoEnd /\ reason.end - t <= 0

\* mutant of EntryCleared: system blocks are kept once the ages are met
EntryClearedOnlyExpired(reason, t) == ExpiryElapsed(reason, t)

\* lines 596-613: an existing entry with both ages met is dropped when it is
\* a system block or an operator block whose time is over
EntryCleared(reason, t) ==
    StartsWithNewAccount(reason) \/ StartsWithRecentlyJoined(reason)
        \/ ExpiryElapsed(reason, t)

\* lines 499-615 for a sender that is not whitelisted, at time t: the entry
\* left in the block map, the reaction chosen, changed, and whether the
\* "Message not sent!" notice is sent.
Evaluate(s, t) ==
    LET reason == blocked[s]
        branch == EvalBranch(s, t)
    IN  CASE branch = "account" ->
                [branch |-> branch,
                 entry |-> EnsureEntry(blocked[s], NewAccountReason),
                 changed |-> blocked[s] = NoEntry,
                 notice |-> NoticeCondition(StartsWithNewAccount(reason),
                                            blocked[s] = NoEntry),
                 reaction |-> "blocked_emoji"]
          [] branch = "guild" ->
                [branch |-> branch,
                 entry |-> EnsureEntry(blocked[s], RecentlyJoinedReason),
                 changed |-> blocked[s] = NoEntry,
                 notice |-> NoticeCondition(StartsWithRecentlyJoined(reason),
                                            blocked[s] = NoEntry),
                 reaction |-> "blocked_emoji"]
          [] branch = "entry" ->
                [branch |-> branch,
                 entry |-> IF EntryCleared(reason, t) THEN NoEntry ELSE reason,
                 changed |-> FALSE,
                 notice |-> FALSE,
                 reaction |-> IF EntryCleared(reason, t)
                              THEN "sent_emoji" ELSE "blocked_emoji"]
          [] OTHER ->
                [branch |-> branch, entry |-> NoEntry, changed |-> FALSE,
                 notice |-> FALSE, reaction |-> "sent_emoji"]

\* line 623: return str(message.author.id) in self.blocked_users
ReturnBlocked(s) == blocked[s] # NoEntry

\* a return value that is never Reject
DecisionAccept(is_blocked) == "Accept"

\* the Decision of the evaluation: _process_blocked returns True for Reject
Decision(is_blocked) == IF is_blocked THEN "Reject" ELSE "Accept"

\* mutant of MayRelay: the result of the evaluation is ignored
MayRelayAlways(is_blocked) == TRUE

\* line 630: if not blocked
MayRelay(is_blocked) == ~is_blocked

\* ------------------------------------------- ThreadManager (core.thread)
\* find(recipient): lookup in the in-memory index.
Find(r) == {th \in threads : th.recipient = r}

\* Closure Scheduler cancel(recipient): the record is removed.
Cancelled(c, r) == [c EXCEPT ![r] = NoClosure]
Disarmed(tm, r) == {x \in tm : x.recipient # r}

\* Thread.send(message) by handler h into thread th: the message is forwarded
\* into the relay channel; a pending closure of the thread is cancelled.
ThreadSend(h, th) ==
    /\ relayed' = relayed \cup {[msg |-> h, chan |-> th.id]}
    /\ closures' = Cancelled(closures, th.recipient)
    /\ closures_db' = Cancelled(closures_db, th.recipient)
    /\ timers' = Disarmed(timers, th.recipient)

\* find_or_create(recipient), entered by handler h: the creation lock of the
\* recipient is taken; an existing thread is returned at once (and the caller
\* goes on to thread.send, line 632), otherwise the relay channel is created
\* while the lock is held.  A caller that finds the lock taken waits.
FindOrCreate(h, res) ==
    LET r == hs[h].author IN
    IF lock[r] # 0
    THEN /\ hs' = [hs EXCEPT ![h] = [IdleHandler EXCEPT !.pc = "lock_wait",
                                                       !.author = r,
                                                       !.result = res]]
         /\ UNCHANGED <<lock, relayed, closureVars>>
    ELSE IF Find(r) # {}
    THEN LET th == CHOOSE x \in Find(r) : TRUE IN
         /\ hs' = [hs EXCEPT ![h] = [IdleHandler EXCEPT !.pc = "done",
                                                       !.author = r,
                                                       !.result = res,
                                                       !.chan = th.id]]
         /\ ThreadSend(h, th)
         /\ UNCHANGED lock
    ELSE /\ hs' = [hs EXCEPT ![h] = [IdleHandler EXCEPT !.pc = "create_channel",
                                                       !.author = r,
                                                       !.result = res]]
         /\ lock' = [lock EXCEPT ![r] = h]
         /\ UNCHANGED <<relayed, closureVars>>

\* Thread.close on thread th with after = 0: the relay channel is deleted when
\* delete_channel, the thread leaves the index, its closure record and timer go.
CloseNow(th, delete_channel, ths, by) ==
    /\ threads' = ths \ {th}
    /\ channels' = IF delete_channel THEN channels \ {th} ELSE channels
    /\ closures' = Cancelled(closures, th.recipient)
    /\ closures_db' = Cancelled(closures_db, th.recipient)
    /\ timers' = Disarmed(timers, th.recipient)
    /\ closed' = closed \cup {[recipient |-> th.recipient, chan |-> th.id, by |-> by]}

\* a close that arms a second timer next to the one already armed
CloseLaterStacking(th, after, rec, ths) ==
    /\ closures' = [closures EXCEPT ![th.recipient] = [rec EXCEPT !.time = now + after]]
    /\ closures_db' = [closures_db EXCEPT ![th.recipient] = [rec EXCEPT !.time = now + after]]
    /\ timers' = timers \cup {[recipient |-> th.recipient, time |-> now + after]}
    /\ threads' = ths
    /\ UNCHANGED <<channels, closed>>

\* Thread.close with after > 0: the closure is persisted under the recipient
\* (replacing an earlier one) and a timer is armed for now + after.
CloseLater(th, after, rec, ths) ==
    /\ closures' = [closures EXCEPT ![th.recipient] = [rec EXCEPT !.time = now + after]]
    /\ closures_db' = [closures_db EXCEPT ![th.recipient] = [rec EXCEPT !.time = now + after]]
    /\ timers' = Disarmed(timers, th.recipient)
                    \cup {[recipient |-> th.recipient, time |-> now + after]}
    /\ threads' = ths
    /\ UNCHANGED <<channels, closed>>

\* Thread.close(closer, after, silent, delete_channel, message, auto_close)
\* acting on the index ths.
ThreadClose(th, after, rec, ths, by) ==
    IF after > 0 THEN CloseLater(th, after, rec, ths)
    ELSE CloseNow(th, rec.delete_channel, ths, by)

\* ------------------------------------------------------ message handlers
\* on_message -> process_modmail -> _process_blocked -> retrieve_emoji, which
\* awaits config.update() (line 480).  Handlers are numbered by arrival.
ProcessModmail(h, s) ==
    /\ connected
    /\ hs[h].pc = "idle"
    /\ \A g \in Handlers : g < h => hs[g].pc # "idle"
    /\ hs' = [hs EXCEPT ![h] = [@ EXCEPT !.pc = "retrieve_emoji", !.author = s]]
    /\ blocked_db' = Flushed(blocked_db, blocked)

\* a private message of sender s, who is no bot, arrives (lines 693-703)
OnMessage(h, s) ==
    /\ ProcessModmail(h, s)
    /\ UNCHANGED <<now, envVars, ageVars, sideVars, blocked, closureVars, startVars, threads,
                   channels, lock, relayed, closed>>

\* lines 486-497 (whitelisted) or 499-617 (otherwise), up to the next await:
\* config.update() at 489/617, channel.send at 564/587, add_reaction at 493.
ProcessBlocked(h) ==
    LET s == hs[h].author IN
    /\ hs[h].pc = "retrieve_emoji"
    /\ IF IsWhitelisted(s)
       THEN /\ blocked' = [blocked EXCEPT ![s] = NoEntry]
            /\ blocked_db' = IF blocked[s] # NoEntry
                             THEN Flushed(blocked_db, blocked') ELSE blocked_db
            /\ hs' = [hs EXCEPT ![h] =
                        [@ EXCEPT !.pc = "add_reaction",
                                  !.t = now, !.seen = blocked[s],
                                  !.branch = "whitelist",
                                  !.reaction = "sent_emoji"]]
            /\ UNCHANGED ageVars
       ELSE /\ account_age' = AgeAfterParse(account_age)
            /\ guild_age' = AgeAfterParse(guild_age)
            /\ IF AgeError(s)
               THEN /\ hs' = [hs EXCEPT ![h] =
                              [@ EXCEPT !.pc = "error", !.t = now,
                                        !.seen = blocked[s]]]
                    /\ UNCHANGED blockVars
               ELSE LET e == Evaluate(s, now) IN
                    /\ blocked' = [blocked EXCEPT ![s] = e.entry]
                    /\ blocked_db' = IF e.notice THEN blocked_db
                                     ELSE Flushed(blocked_db, blocked')
                    /\ hs' = [hs EXCEPT ![h] =
                                [@ EXCEPT !.pc = IF e.notice
                                                 THEN "send_notice" ELSE "add_reaction",
                                          !.t = now, !.seen = blocked[s],
                                          !.branch = e.branch, !.changed = e.changed,
                                          !.notice = e.notice, !.reaction = e.reaction]]
    /\ UNCHANGED <<now, envVars, sideVars, closureVars, startVars, threads, channels,
                   lock, relayed, closed>>

\* after channel.send (lines 564-571 / 587-594): line 617, config.update()
NoticeSent(h) ==
    /\ hs[h].pc = "send_notice"
    /\ blocked_db' = Flushed(blocked_db, blocked)
    /\ hs' = [hs EXCEPT ![h] = [@ EXCEPT !.pc = "add_reaction"]]
    /\ UNCHANGED <<now, envVars, ageVars, sideVars, blocked, closureVars, startVars, threads,
                   channels, lock, relayed, closed>>

\* mutant of ReactionAdded: line 631 creates a thread without looking for one
ReactionAddedNoFind(h) ==
    LET s == hs[h].author
        is_blocked == IF hs[h].branch = "whitelist" THEN FALSE ELSE ReturnBlocked(s)
    IN
    /\ hs[h].pc = "add_reaction"
    /\ hs' = [hs EXCEPT ![h] =
                [IdleHandler EXCEPT !.pc = IF is_blocked THEN "done"
                                           ELSE "create_channel",
                                    !.author = s,
                                    !.result = Decision(is_blocked)]]
    /\ UNCHANGED <<now, envVars, ageVars, sideVars, blockVars, closureVars, startVars, threads,
                   channels, lock, relayed, closed>>

\* after config.update() (lines 489, 617) and add_reaction (lines 493, 620),
\* between which the handler touches nothing shared: the return of
\* _process_blocked (line 497: False for a whitelisted sender; line 623
\* otherwise) and lines 630-632.
ReactionAdded(h) ==
    LET s == hs[h].author
        is_blocked == IF hs[h].branch = "whitelist" THEN FALSE ELSE ReturnBlocked(s)
    IN
    /\ hs[h].pc = "add_reaction"
    /\ IF MayRelay(is_blocked)
       THEN FindOrCreate(h, Decision(is_blocked))
       ELSE /\ hs' = [hs EXCEPT ![h] = [IdleHandler EXCEPT !.pc = "done",
                                                          !.author = s,
                                                          !.result = Decision(is_blocked)]]
            /\ UNCHANGED <<lock, relayed, closureVars>>
    /\ UNCHANGED <<now, envVars, ageVars, sideVars, blockVars, startVars, threads, channels, closed>>

\* a waiter of the creation lock is woken once the lock is free
LockAcquired(h) ==
    /\ hs[h].pc = "lock_wait"
    /\ lock[hs[h].author] = 0
    /\ FindOrCreate(h, hs[h].result)
    /\ UNCHANGED <<now, envVars, ageVars, sideVars, blockVars, startVars, threads, channels, closed>>

\* find_or_create, after create_channel: the Thread is constructed and put in
\* the index, and the creation notice is sent into the new channel.
ChannelCreated(h) ==
    LET th == [id |-> h, recipient |-> hs[h].author] IN
    /\ hs[h].pc = "create_channel"
    /\ threads' = threads \cup {th}
    /\ channels' = channels \cup {th}
    /\ hs' = [hs EXCEPT ![h] = [@ EXCEPT !.pc = "creation_notice", !.chan = h]]
    /\ UNCHANGED <<now, envVars, ageVars, sideVars, blockVars, closureVars, startVars, lock,
                   relayed, closed>>

\* find_or_create returns (the lock is released); line 632, thread.send,
\* after which process_modmail ends
ThreadCreated(h) ==
    /\ hs[h].pc = "creation_notice"
    /\ lock' = [lock EXCEPT ![hs[h].author] = 0]
    /\ ThreadSend(h, [id |-> hs[h].chan, recipient |-> hs[h].author])
    /\ hs' = [hs EXCEPT ![h] = [@ EXCEPT !.pc = "done"]]
    /\ UNCHANGED <<now, envVars, ageVars, sideVars, blockVars, startVars, threads, channels, closed>>

\* the clock
Tick ==
    /\ now < MaxTime
    /\ now' = now + 1
    /\ UNCHANGED <<envVars, ageVars, sideVars, blockVars, closureVars, startVars, hs, threads,
                   channels, lock, relayed, closed>>
\* ------------------------------------------------ on_connect, on_ready
\* an on_connect that refreshes and sets _connected whatever the check says
OnConnectUnchecked(db_ok) ==
    /\ ~connected
    /\ ~logged_out
    /\ connected' = TRUE
    /\ blocked' = blocked_db
    /\ closures' = closures_db
    /\ logged_out' = ~db_ok
    /\ UNCHANGED <<now, envVars, ageVars, sideVars, blocked_db, closures_db, timers, ready,
                   close_calls, hs, threads, channels, lock, relayed, closed>>

\* lines 351-362: a failed validate_database_connection logs out; otherwise
\* config.refresh() loads the cache from the database and _connected is set.
OnConnect(db_ok) ==
    /\ ~connected
    /\ ~logged_out
    /\ IF db_ok
       THEN /\ connected' = TRUE
            /\ blocked' = blocked_db
            /\ closures' = closures_db
            /\ UNCHANGED logged_out
       ELSE /\ logged_out' = TRUE
            /\ UNCHANGED <<connected, blocked, closures>>
    /\ UNCHANGED <<now, envVars, ageVars, sideVars, blocked_db, closures_db, timers, ready,
                   close_calls, hs, threads, channels, lock, relayed, closed>>

\* the recipients of a set, in ascending order
RECURSIVE SortedSeq(_)
SortedSeq(S) ==
    IF S = {} THEN <<>>
    ELSE LET m == CHOOSE x \in S : \A y \in S : x <= y
         IN  <<m>> \o SortedSeq(S \ {m})

\* line 410: tuple(closures.items())
ClosureItems(c) ==
    LET keys == SortedSeq({r \in DOMAIN c : c[r] # NoClosure})
    IN  [k \in 1..Len(keys) |-> <<keys[k], c[keys[k]]>>]

\* mutant of ClampAfter: the delay is passed on as computed
ClampAfterNone(after) == after

\* lines 414-415: if after < 0: after = 0
ClampAfter(after) == IF after < 0 THEN 0 ELSE after

\* mutant of RemainingDelay: every recovered closure is taken as due
RemainingDelayZero(rec, t) == 0

\* lines 411-415: the delay left until the closure's time
RemainingDelay(rec, t) == ClampAfter(rec.time - t)

\* mutant of PopClosure: the record is left in config["closures"]
PopClosureKept(c, rid) == c

\* line 421: self.config["closures"].pop(recipient_id)
PopClosure(c, rid) == [c EXCEPT ![rid] = NoClosure]

\* line 431: items.get("auto_close", False)
AutoCloseOrDefault(rec) ==
    IF rec.auto_close = "absent" THEN "false" ELSE rec.auto_close

\* lines 410-432 from the head of the loop at item i up to the next await
\* (config.update() at 422, thread.close at 425), with ths the thread index.
\* Popping a key that is gone raises KeyError, which ends on_ready.
RecoveryLoop(i, items, ths) ==
    IF i > Len(items)
    THEN /\ ready' = [ready EXCEPT !.pc = "done", !.items = <<>>, !.i = 1]
         /\ threads' = ths
         /\ UNCHANGED <<closureVars, blocked_db, channels, close_calls, closed>>
    ELSE LET rid == items[i][1]
             rec == items[i][2]
             after == RemainingDelay(rec, now)
             found == {th \in ths : th.recipient = rid}
         IN  IF found = {}
             THEN IF closures[rid] = NoClosure
                  THEN /\ ready' = [ready EXCEPT !.pc = "error", !.items = items,
                                                 !.i = i]
                       /\ threads' = ths
                       /\ UNCHANGED <<closureVars, blocked_db, channels,
                                      close_calls, closed>>
                  ELSE /\ closures' = PopClosure(closures, rid)
                       /\ closures_db' = closures'
                       /\ blocked_db' = Flushed(blocked_db, blocked)
                       /\ ready' = [ready EXCEPT !.pc = "config_update",
                                                 !.items = items, !.i = i + 1]
                       /\ threads' = ths
                       /\ UNCHANGED <<timers, channels, close_calls, closed>>
             ELSE \E th \in found :
                       /\ ThreadClose(th, after, rec, ths, "on_ready")
                       /\ close_calls' = close_calls \cup
                              {[recipient |-> rid, chan |-> th.id, after |-> after,
                                remaining |-> rec.time - now,
                                closer_id |-> rec.closer_id,
                                silent |-> rec.silent,
                                delete_channel |-> rec.delete_channel,
                                message |-> rec.message,
                                auto_close |-> AutoCloseOrDefault(rec)]}
                       /\ ready' = [ready EXCEPT !.pc = "thread_close",
                                                 !.items = items, !.i = i + 1]
                       /\ UNCHANGED blocked_db

\* line 392 passed; lines 394-404: await self.threads.populate_cache()
OnReady ==
    /\ connected
    /\ ready.pc = "wait_for_connected"
    /\ ready' = [ready EXCEPT !.pc = "populate_cache"]
    /\ UNCHANGED <<now, envVars, ageVars, sideVars, blockVars, closureVars, connected, logged_out,
                   close_calls, hs, threads, channels, lock, relayed, closed>>

\* populate_cache: a Thread is rebuilt for every relay channel.
PopulateCache == threads \cup channels

\* populate_cache returns; lines 406-410 and the first pass of the loop
CachePopulated ==
    /\ ready.pc = "populate_cache"
    /\ RecoveryLoop(1, ClosureItems(closures), PopulateCache)
    /\ UNCHANGED <<now, envVars, ageVars, sideVars, blocked, connected, logged_out, hs, lock, relayed>>

\* config.update() (line 422) or thread.close (line 425) returns: next pass
RecoveryResumed ==
    /\ ready.pc \in {"config_update", "thread_close"}
    /\ RecoveryLoop(ready.i, ready.items, threads)
    /\ UNCHANGED <<now, envVars, ageVars, sideVars, blocked, connected, logged_out, hs, lock, relayed>>

\* Closure Scheduler: an armed timer whose time has come runs the immediate
\* close of its thread; without a thread the record is dropped.
TimerFires(r) ==
    /\ \E x \in timers : x.recipient = r /\ now >= x.time
    /\ IF Find(r) = {}
       THEN /\ closures' = Cancelled(closures, r)
            /\ closures_db' = Cancelled(closures_db, r)
            /\ timers' = Disarmed(timers, r)
            /\ UNCHANGED <<threads, channels, closed>>
       ELSE \E th \in Find(r) : CloseNow(th, closures[r].delete_channel, threads, "timer")
    /\ UNCHANGED <<now, envVars, ageVars, sideVars, blockVars, startVars, hs, lock, relayed>>

\* --------------------------------------- log channel, category, guild
\* A guild, category or channel is [kind, id]; NoId stands for None.
NoId == [kind |-> "none", id |-> 0]
NoIds == [log_channel_id |-> NoId, main_category_id |-> NoId,
          modmail_guild_id |-> NoId]

\* the guild of config guild_id (self.guild) and a separate modmail guild
MainGuild == [kind |-> "guild", id |-> 1]
OtherGuild == [kind |-> "guild", id |-> 2]
\* categories of the main guild: one named "Modmail", one with another name
ModmailCategory == [kind |-> "category", id |-> 10]
CustomCategory == [kind |-> "category", id |-> 11]
\* text channels that are no relay channel, one in each category
ModmailChannel == [kind |-> "channel", id |-> 20]
CustomChannel == [kind |-> "channel", id |-> 21]
Entities == {MainGuild, OtherGuild, ModmailCategory, CustomCategory,
             ModmailChannel, CustomChannel}
ConfigKeys == {"log_channel_id", "main_category_id", "modmail_guild_id"}

\* a relay channel as a text channel
AsChannel(c) == [kind |-> "channel", id |-> c.id]

\* lines 270-272: discord.utils.get(self.guilds, id=self.guild_id)
Guild(lv) == IF MainGuild \in lv THEN MainGuild ELSE NoId

\* guild.categories
CategoriesOf(g, lv) ==
    IF g = MainGuild THEN {e \in lv : e.kind = "category"} ELSE {}

\* category.channels in position order: the channels made at setup come
\* before the relay channels, which are created in the "Modmail" category
CategoryChannels(cat, lv, relay) ==
    LET own == IF cat = ModmailCategory THEN {ModmailChannel} \cap lv
               ELSE {CustomChannel} \cap lv
        rel == IF cat = ModmailCategory THEN {AsChannel(c) : c \in relay} ELSE {}
    IN  IF own # {} THEN SortedSeq({e.id : e \in own})
        ELSE [i \in 1..Cardinality(rel) |->
                 SortedSeq({-e.id : e \in rel})[i] * (-1)]

\* lines 274-288: the value of modmail_guild and the cache after the lookup
ModmailGuild(c, lv) ==
    IF c.modmail_guild_id = NoId
    THEN [value |-> Guild(lv), ids |-> c]
    ELSE IF c.modmail_guild_id \in lv
    THEN [value |-> c.modmail_guild_id, ids |-> c]
    ELSE [value |-> Guild(lv), ids |-> [c EXCEPT !.modmail_guild_id = NoId]]

\* lines 294-310: the value of main_category and the cache after the lookup
MainCategory(c, lv) ==
    LET g == ModmailGuild(c, lv) IN
    IF g.value = NoId THEN [value |-> NoId, ids |-> g.ids]
    ELSE LET cats == CategoriesOf(g.value, lv)
             c1 == g.ids
         IN  IF c1.main_category_id # NoId /\ c1.main_category_id \in cats
             THEN [value |-> c1.main_category_id, ids |-> c1]
             ELSE LET c2 == [c1 EXCEPT !.main_category_id = NoId] IN
                  IF ModmailCategory \in cats
                  THEN [value |-> ModmailCategory,
                        ids |-> [c2 EXCEPT !.main_category_id = ModmailCategory]]
                  ELSE [value |-> NoId, ids |-> c2]

\* lines 208-230: the value of log_channel and the cache after the lookup
LogChannel(c, lv, relay) ==
    IF c.log_channel_id # NoId
       /\ c.log_channel_id \in lv \cup {AsChannel(x) : x \in relay}
    THEN [value |-> c.log_channel_id, ids |-> c]
    ELSE LET m == MainCategory([c EXCEPT !.log_channel_id = NoId], lv) IN
         IF m.value = NoId THEN [value |-> NoId, ids |-> m.ids]
         ELSE LET chs == CategoryChannels(m.value, lv, relay) IN
              IF chs = <<>> THEN [value |-> NoId, ids |-> m.ids]
              ELSE [value |-> [kind |-> "channel", id |-> chs[1]],
                    ids |-> [m.ids EXCEPT !.log_channel_id =
                                [kind |-> "channel", id |-> chs[1]]]]

\* some caller reads one of the three properties
Lookup(key) ==
    /\ connected
    /\ ids' = CASE key = "log_channel_id" -> LogChannel(ids, live, channels).ids
                [] key = "main_category_id" -> MainCategory(ids, live).ids
                [] OTHER -> ModmailGuild(ids, live).ids
    /\ UNCHANGED <<now, envVars, ageVars, routeVars, reactVars, ids_db, live, blockVars,
                   closureVars, startVars, hs, threads, channels, lock, relayed,
                   closed>>

\* a guild is left, a category or a channel is deleted
EntityDeleted(e) ==
    /\ e \in live
    /\ live' = live \ {e}
    /\ UNCHANGED <<now, envVars, ageVars, routeVars, reactVars, ids, ids_db, blockVars,
                   closureVars, startVars, hs, threads, channels, lock, relayed,
                   closed>>

\* a handler's await self.config.update() writes the cache to the database
ConfigUpdated ==
    /\ connected
    /\ ids_db # ids
    /\ ids_db' = ConfigUpdate(ids)
    /\ UNCHANGED <<now, envVars, ageVars, routeVars, reactVars, ids, live, blockVars,
                   closureVars, startVars, hs, threads, channels, lock, relayed,
                   closed>>

\* ------------------------------------------------- on_raw_reaction_add
\* A reaction event as the handler sees it: who reacted (is_bot: user.bot),
\* where ("dm": the DM channel is in the cache, "dm_uncached": get_channel
\* returned None, "guild": a text channel of a guild, gchan its id), whether
\* fetch_message found the message, the emoji, the timestamp of the message's
\* first embed (NoTs without embeds), whether the last segment of the embed's
\* author url is a number (ref), and whether the recipient's DM history holds
\* the message with that id (hist).
NoTs == 0
OtherTs == 99
NoChannel == 0
OtherChannel == 98
\* channel.created_at of a relay channel
ChannelCreatedAt(id) == id
EmbedTimestamps == {NoTs, OtherTs} \cup {ChannelCreatedAt(c.id) : c \in channels}
GuildChannels == {c.id : c \in channels} \cup {OtherChannel}

NoReaction ==
    [is_bot |-> FALSE, user |-> 0, where |-> "", gchan |-> NoChannel,
     found |-> FALSE, emoji |-> "", ts |-> NoTs, ref |-> FALSE, hist |-> FALSE,
     action |-> ""]

BotReactions ==
    {[NoReaction EXCEPT !.is_bot = TRUE, !.user = 1, !.where = "dm"]}
LostReactions ==
    {[NoReaction EXCEPT !.user = u, !.where = w, !.gchan = g] :
        u \in Senders,
        w \in {"dm", "dm_uncached", "guild"},
        g \in GuildChannels \cup {NoChannel}}
DmReactions ==
    {[NoReaction EXCEPT !.user = u, !.where = w, !.found = TRUE,
                        !.emoji = m, !.ts = t] :
        u \in Senders, w \in {"dm", "dm_uncached"},
        m \in {"close_emoji", "other_emoji"}, t \in EmbedTimestamps}
GuildReactions ==
    {[NoReaction EXCEPT !.user = 1, !.where = "guild", !.gchan = g,
                        !.found = TRUE, !.emoji = "other_emoji",
                        !.ts = t[1], !.ref = t[2], !.hist = t[3]] :
        g \in GuildChannels,
        t \in {<<NoTs, FALSE, FALSE>>, <<OtherTs, FALSE, FALSE>>,
               <<OtherTs, TRUE, FALSE>>, <<OtherTs, TRUE, TRUE>>}}
ReactionEvents ==
    BotReactions
        \cup {e \in LostReactions : (e.where = "guild") = (e.gchan # NoChannel)}
        \cup DmReactions \cup GuildReactions


\* distutils strtobool on a config value: "error" stands for ValueError.  A
\* key that was removed reads as its default, which is off.
StrToBool(v) ==
    CASE v \in {"true", "yes", "on", "1"} -> "True"
      [] v \in {"false", "no", "off", "0", "unset"} -> "False"
      [] OTHER -> "error"

\* truth value of what `if recipient_thread_close:` tests (line 819): the int
\* from strtobool, or the non-empty string that config.remove returned
Truthy(v) == v \notin {"False", "", "unset"}

\* mutant of TimestampMatches: any message with an embed counts
TimestampMatchesAnyEmbed(ts, th) == ts # NoTs

\* line 808: ts == thread.channel.created_at
TimestampMatches(ts, th) == ts = ChannelCreatedAt(th.id)

\* lines 786-833, the whole handler for event e; the lookups it awaits
\* (threads.find, create_dm, fetch_message, convert_emoji) change nothing.
OnRawReactionAdd(e) ==
    LET mine == Find(e.user)
        theirs == {th \in threads : th.id = e.gchan}
        flag == StrToBool(recipient_thread_close)
        enabled == IF flag = "error" THEN RemoveReturns(recipient_thread_close)
                   ELSE flag
        done(a) == rx' = [e EXCEPT !.action = a]
        idle == UNCHANGED <<threads, channels, closureVars, closed,
                            recipient_thread_close>>
    IN
    /\ IF e.is_bot THEN done("return") /\ idle
       ELSE IF e.where = "dm_uncached" /\ mine = {} THEN done("return") /\ idle
       ELSE IF ~e.found THEN done("return") /\ idle
       ELSE IF e.where # "guild"
       THEN IF e.emoji = "close_emoji" /\ mine # {}
               /\ (\E th \in mine : TimestampMatches(e.ts, th))
            THEN /\ recipient_thread_close' =
                        IF flag = "error" THEN ConfigRemoved
                        ELSE recipient_thread_close
                 /\ IF Truthy(enabled)
                    THEN /\ \E th \in {x \in mine : TimestampMatches(e.ts, x)} :
                                CloseNow(th, TRUE, threads, "reaction")
                         /\ done("close")
                    ELSE /\ done("end")
                         /\ UNCHANGED <<threads, channels, closureVars, closed>>
            ELSE done("end") /\ idle
       ELSE IF e.ts = NoTs THEN done("return") /\ idle
       ELSE IF ~e.ref THEN done("end") /\ idle
       ELSE IF theirs = {} THEN done("AttributeError") /\ idle
       ELSE IF e.hist THEN done("relay") /\ idle
       ELSE done("end") /\ idle
    /\ UNCHANGED <<now, envVars, ageVars, lookupVars, routeVars, blockVars,
                   startVars, hs,
                   lock, relayed>>

\* the closure an operator's close command persists: the defaults of
\* close(closer, after=0, silent=False, delete_channel=True, message=None,
\* auto_close=False)
OperatorRecord(t) ==
    [time |-> t, closer_id |-> 8, silent |-> FALSE, delete_channel |-> TRUE,
     message |-> "", auto_close |-> "false"]

\* an operator's close command on the thread of recipient r with a delay:
\* Thread.close(closer, after)
OperatorClose(r, after) ==
    /\ connected
    /\ \E th \in Find(r) :
          ThreadClose(th, after, OperatorRecord(now + after), threads, "operator")
    /\ UNCHANGED <<now, envVars, ageVars, sideVars, blockVars, startVars, hs,
                   lock, relayed>>

\* ------------------------------------------------------ on_message_edit
\* An edit of a message: by a bot or not, in a DM or in a guild channel, and
\* whether the history of the relay channel holds an embed whose author url
\* ends in the id of the edited message (flag).
EditEvents ==
    {[NoEvent EXCEPT !.handler = "on_message_edit", !.is_bot = TRUE,
                     !.author = 1, !.where = "dm"]}
    \cup {[NoEvent EXCEPT !.handler = "on_message_edit", !.author = u,
                          !.where = "dm", !.flag = f] :
             u \in Senders, f \in BOOLEAN}
    \cup {[NoEvent EXCEPT !.handler = "on_message_edit", !.author = 1,
                          !.where = "guild", !.chan = OtherChannel]}

\* lines 901-914, the whole handler: for a DM the thread of the author is
\* looked up and thread.channel.history() is searched; the copy found is
\* edited together with the log record.  No thread: thread is None at 906.
OnMessageEdit(e) ==
    /\ ev' = [e EXCEPT !.action =
                 IF e.is_bot THEN "return"
                 ELSE IF e.where # "dm" THEN "end"
                 ELSE IF Find(e.author) = {} THEN "AttributeError"
                 ELSE IF e.flag THEN "edit"
                 ELSE "end"]
    /\ UNCHANGED <<now, envVars, ageVars, reactVars, lookupVars,
                   reply_without_command, blockVars, closureVars, startVars,
                   hs, threads, channels, lock, relayed, closed>>

\* ---------------------------------------------- on_guild_channel_delete
\* the operator who deletes channels
Moderator == 8

\* A channel of the main guild that can be deleted now: a category, a text
\* channel made at setup or a relay channel, deleted by the operator (the
\* audit log names them), a voice channel, and the relay channel of a thread
\* the bot has closed, which the bot deleted itself (flag).
DeleteEvents ==
    {[NoEvent EXCEPT !.handler = "on_guild_channel_delete", !.author = Moderator,
                     !.where = "guild", !.chan = e.id,
                     !.kind = IF e.kind = "category" THEN "category" ELSE "text"] :
        e \in {x \in live : x.kind # "guild"}}
    \cup {[NoEvent EXCEPT !.handler = "on_guild_channel_delete",
                          !.author = Moderator, !.where = "guild",
                          !.chan = c.id, !.kind = "text"] : c \in channels}
    \cup {[NoEvent EXCEPT !.handler = "on_guild_channel_delete",
                          !.author = Moderator, !.where = "guild",
                          !.chan = OtherChannel, !.kind = "voice"]}
    \cup {[NoEvent EXCEPT !.handler = "on_guild_channel_delete", !.is_bot = TRUE,
                          !.flag = TRUE, !.where = "guild", !.chan = c.chan,
                          !.kind = "text"] :
             c \in {x \in closed : x.by # "channel_delete"}}

\* the gateway reports a deleted channel: it has left the guild's channels
\* when on_guild_channel_delete is dispatched
ChannelDeleted(e) ==
    /\ connected
    /\ ev.action # "pending"
    /\ live' = {x \in live : x.id # e.chan}
    /\ channels' = {c \in channels : c.id # e.chan}
    /\ ev' = [e EXCEPT !.action = "pending"]
    /\ UNCHANGED <<now, envVars, ageVars, reactVars, ids, ids_db,
                   reply_without_command, blockVars, closureVars, startVars,
                   hs, threads, lock, relayed, closed>>

\* lines 835-864, the whole handler for the event reported last.  The
\* properties modmail_guild, main_category and log_channel are read as they
\* are after the deletion; config.update() (849, 857) writes the cache.
OnGuildChannelDelete ==
    LET e == ev
        g == ModmailGuild(ids, live)
        m == MainCategory(g.ids, live)
        l == LogChannel(g.ids, live, channels)
        theirs == {th \in threads : th.id = e.chan}
        out(a) == ev' = [e EXCEPT !.action = a]
        idle == UNCHANGED <<threads, channels, closureVars, closed, blocked_db>>
    IN
    /\ e.handler = "on_guild_channel_delete"
    /\ e.action = "pending"
    /\ IF g.value # MainGuild
       THEN out("return") /\ ids' = g.ids /\ UNCHANGED ids_db /\ idle
       ELSE IF e.flag
       THEN out("return") /\ ids' = g.ids /\ UNCHANGED ids_db /\ idle
       ELSE IF e.kind = "category"
       THEN IF m.value = NoId
            THEN out("AttributeError") /\ ids' = m.ids /\ UNCHANGED ids_db /\ idle
            ELSE IF m.value.id = e.chan
            THEN /\ out("category_removed")
                 /\ ids' = [m.ids EXCEPT !.main_category_id = NoId]
                 /\ ids_db' = ConfigUpdate(ids')
                 /\ blocked_db' = Flushed(blocked_db, blocked)
                 /\ UNCHANGED <<threads, channels, closureVars, closed>>
            ELSE out("return") /\ ids' = m.ids /\ UNCHANGED ids_db /\ idle
       ELSE IF e.kind # "text"
       THEN out("return") /\ ids' = g.ids /\ UNCHANGED ids_db /\ idle
       ELSE IF l.value = NoId \/ l.value.id = e.chan
       THEN /\ out("log_removed")
            /\ ids' = [l.ids EXCEPT !.log_channel_id = NoId]
            /\ ids_db' = ConfigUpdate(ids')
            /\ blocked_db' = Flushed(blocked_db, blocked)
            /\ UNCHANGED <<threads, channels, closureVars, closed>>
       ELSE IF theirs = {}
       THEN out("return") /\ ids' = l.ids /\ UNCHANGED ids_db /\ idle
       ELSE /\ \E th \in theirs : CloseNow(th, FALSE, threads, "channel_delete")
            /\ ev' = [e EXCEPT !.action = "close",
                               !.call = [closer |-> e.author, silent |-> TRUE,
                                         delete_channel |-> FALSE]]
            /\ ids' = l.ids
            /\ UNCHANGED <<ids_db, blocked_db>>
    /\ UNCHANGED <<now, envVars, ageVars, reactVars, live, reply_without_command,
                   blocked, startVars, hs, lock, relayed>>

\* ------------------------------------------------------------ on_message
\* A message as on_message sees it: written by a bot or not, in a DM or in a
\* guild channel (chan), and what its content is: "command" (prefix and the
\* name of a command), "snippet" (prefix and the name of a snippet, rewritten
\* to the reply command at 707-713), "unknown" (prefix and a word that is no
\* command) or "text".
MessageKinds == {"command", "snippet", "unknown", "text"}
MessageEvents ==
    {[NoEvent EXCEPT !.handler = "on_message", !.is_bot = TRUE, !.author = 1,
                     !.where = w, !.chan = c, !.kind = k] :
        w \in {"dm"}, c \in {NoChannel}, k \in {"command", "text"}}
    \cup {[NoEvent EXCEPT !.handler = "on_message", !.is_bot = TRUE,
                          !.author = 1, !.where = "guild", !.chan = c,
                          !.kind = "text"] : c \in GuildChannels}
    \cup {[NoEvent EXCEPT !.handler = "on_message", !.author = u,
                          !.where = "dm", !.kind = k] :
             u \in Senders, k \in {"command", "text"}}
    \cup {[NoEvent EXCEPT !.handler = "on_message", !.author = Moderator,
                          !.where = "guild", !.chan = c, !.kind = k] :
             c \in GuildChannels, k \in MessageKinds}

\* a routing without the test of line 699
RouteBotsToo(e, ths, flag) ==
    IF e.where = "dm" THEN "process_modmail"
    ELSE IF e.kind \in {"command", "snippet"} THEN "invoke"
    ELSE IF \E th \in ths : th.id = e.chan
    THEN IF Truthy(flag) THEN "reply" ELSE "note"
    ELSE IF e.kind = "unknown" THEN "command_error"
    ELSE "end"

\* lines 699-735: where the message goes; flag is the value the local
\* reply_without_command holds at line 727
Route(e, ths, flag) ==
    IF e.is_bot THEN "return"
    ELSE IF e.where = "dm" THEN "process_modmail"
    ELSE IF e.kind \in {"command", "snippet"} THEN "invoke"
    ELSE IF \E th \in ths : th.id = e.chan
    THEN IF Truthy(flag) THEN "reply" ELSE "note"
    ELSE IF e.kind = "unknown" THEN "command_error"
    ELSE "end"

\* lines 722-725: strtobool of the stored value; on ValueError the local is
\* what config.remove returns
ReplyWithoutCommand(v) ==
    IF StrToBool(v) = "error" THEN RemoveReturns(v) ELSE StrToBool(v)

\* lines 693-735 for message e: a private message of a non-bot starts
\* process_modmail in a new handler; everything else is handled at once
\* (thread.reply forwards to the recipient, api.append_log adds the note).
OnMessageEvent(e) ==
    LET r == Route(e, threads, ReplyWithoutCommand(reply_without_command)) IN
    /\ connected
    /\ ev' = [e EXCEPT !.action = r]
    /\ reply_without_command' =
          IF r \in {"reply", "note"} /\ StrToBool(reply_without_command) = "error"
          THEN ConfigRemoved ELSE reply_without_command
    /\ IF r = "process_modmail"
       THEN \E h \in Handlers : ProcessModmail(h, e.author)
       ELSE UNCHANGED <<hs, blocked_db>>
    /\ UNCHANGED <<now, envVars, ageVars, reactVars, lookupVars, blocked,
                   closureVars, startVars, threads, channels, lock, relayed,
                   closed>>

\* ------------------------------------------------------ specifications
AgeConfigs == {[account_age |-> 1, guild_age |-> 2]}
\* sender 1 is a member of the guild, sender 2 has no joined_at
Membership == [s \in Senders |-> IF s = 1 THEN 0 ELSE NoJoin]

\* Spec: the bot is connected and ready, with no closure pending; whitelist,
\* block map and the senders' membership are whatever operators and earlier
\* messages left.
Init ==
    /\ now = 0
    /\ connected = TRUE
    /\ logged_out = FALSE
    /\ whitelist \in SUBSET Senders
    /\ blocked \in [Senders -> StoredReasons \cup {NoEntry}]
    /\ blocked_db = blocked
    /\ \E c \in AgeConfigs : account_age = c.account_age /\ guild_age = c.guild_age
    /\ created_at = [s \in Senders |-> 0]
    /\ joined_at = Membership
    /\ hs = [h \in Handlers |-> IdleHandler]
    /\ threads = {}
    /\ channels = {}
    /\ lock = [s \in Senders |-> 0]
    /\ relayed = {}
    /\ closures = [s \in Senders |-> NoClosure]
    /\ closures_db = closures
    /\ timers = {}
    /\ ready = [pc |-> "done", items |-> <<>>, i |-> 1]
    /\ close_calls = {}
    /\ closed = {}
    /\ recipient_thread_close = "false"
    /\ rx = NoReaction
    /\ reply_without_command = "false"
    /\ ev = NoEvent
    /\ ids = NoIds
    /\ ids_db = NoIds
    /\ live = {}

Next ==
    \/ Tick
    \/ \E h \in Handlers :
        \/ \E s \in Senders : OnMessage(h, s)
        \/ ProcessBlocked(h)
        \/ NoticeSent(h)
        \/ ReactionAdded(h)
        \/ LockAcquired(h)
        \/ ChannelCreated(h)
        \/ ThreadCreated(h)

Spec == Init /\ [][Next]_vars

\* SpecStartup: the process has just been constructed.  The cache holds the
\* defaults; the previous run left relay channels of earlier threads and, in
\* the database, closures that were pending: recipient 1 had a thread with a
\* pending closure, recipient 2 had a thread or none, a closure or none.
StartTime == 1
OldChannel(s) == [id |-> -s, recipient |-> s]
PersistedClosures ==
    {NoClosure, ClosureRecord(StartTime, 1), ClosureRecord(StartTime + 1, 1),
     ClosureRecord(StartTime + 1, 2)}

InitStartup ==
    /\ now = StartTime
    /\ connected = FALSE
    /\ logged_out = FALSE
    /\ whitelist = {}
    /\ blocked = [s \in Senders |-> NoEntry]
    /\ blocked_db = blocked
    /\ \E c \in AgeConfigs : account_age = c.account_age /\ guild_age = c.guild_age
    /\ created_at = [s \in Senders |-> 0]
    /\ joined_at = Membership
    /\ hs = [h \in Handlers |-> IdleHandler]
    /\ threads = {}
    /\ channels \in {{OldChannel(1)}, {OldChannel(1), OldChannel(2)}}
    /\ lock = [s \in Senders |-> 0]
    /\ relayed = {}
    /\ closures = [s \in Senders |-> NoClosure]
    /\ closures_db \in [Senders -> PersistedClosures]
    /\ closures_db[1] # NoClosure
    /\ timers = {}
    /\ ready = [pc |-> "wait_for_connected", items |-> <<>>, i |-> 1]
    /\ close_calls = {}
    /\ closed = {}
    /\ recipient_thread_close = "false"
    /\ rx = NoReaction
    /\ reply_without_command = "false"
    /\ ev = NoEvent
    /\ ids = NoIds
    /\ ids_db = NoIds
    /\ live = {}

NextStartup ==
    \/ Next
    \/ \E db_ok \in BOOLEAN : OnConnect(db_ok)
    \/ OnReady
    \/ CachePopulated
    \/ RecoveryResumed
    \/ \E r \in Senders : TimerFires(r)

SpecStartup == InitStartup /\ [][NextStartup]_vars

\* The bot is connected and serving: recipient 1 has a thread, recipient 2
\* has one or none.
Serving ==
    /\ now = 0
    /\ connected = TRUE
    /\ logged_out = FALSE
    /\ whitelist = {}
    /\ blocked = [s \in Senders |-> NoEntry]
    /\ blocked_db = blocked
    /\ \E c \in AgeConfigs : account_age = c.account_age /\ guild_age = c.guild_age
    /\ created_at = [s \in Senders |-> 0]
    /\ joined_at = Membership
    /\ hs = [h \in Handlers |-> IdleHandler]
    /\ channels \in {{OldChannel(1)}, {OldChannel(1), OldChannel(2)}}
    /\ threads = channels
    /\ lock = [s \in Senders |-> 0]
    /\ relayed = {}
    /\ close_calls = {}
    /\ closed = {}
    /\ rx = NoReaction
    /\ reply_without_command = "false"
    /\ ev = NoEvent

MaxAfter == 1
RunningClosures ==
    {[s \in Senders |-> NoClosure],
     [s \in Senders |-> IF s = 1 THEN ClosureRecord(1, 1) ELSE NoClosure]}
ArmedFor(c) ==
    {[recipient |-> r, time |-> c[r].time] :
        r \in {x \in Senders : c[x] # NoClosure}}

\* SpecReaction: reactions arrive while operators close threads, at once or
\* with a delay, and timers fire.
InitReaction ==
    /\ Serving
    /\ ids = NoIds
    /\ ids_db = NoIds
    /\ live = {}
    /\ closures = [s \in Senders |-> NoClosure]
    /\ closures_db = closures
    /\ timers = {}
    /\ ready = [pc |-> "done", items |-> <<>>, i |-> 1]
    /\ recipient_thread_close \in {"true", "false", "maybe"}

NextReaction ==
    \/ Tick
    \/ \E e \in ReactionEvents : OnRawReactionAdd(e)
    \/ \E r \in Senders, after \in 0..MaxAfter : OperatorClose(r, after)
    \/ \E r \in Senders : TimerFires(r)

SpecReaction == InitReaction /\ [][NextReaction]_vars

\* SpecRunning: a closure of thread 1 may be pending and armed; the gateway
\* has sent READY again after a reconnect, so on_ready is about to run once
\* more while operators close threads and timers fire.
InitRunning ==
    /\ Serving
    /\ ids = NoIds
    /\ ids_db = NoIds
    /\ live = {}
    /\ closures \in RunningClosures
    /\ closures_db = closures
    /\ timers = ArmedFor(closures)
    /\ ready = [pc |-> "wait_for_connected", items |-> <<>>, i |-> 1]
    /\ recipient_thread_close = "false"

NextRunning ==
    \/ Tick
    \/ \E r \in Senders, after \in 0..MaxAfter : OperatorClose(r, after)
    \/ \E r \in Senders : TimerFires(r)
    \/ OnReady
    \/ CachePopulated
    \/ RecoveryResumed

SpecRunning == InitRunning /\ [][NextRunning]_vars

\* SpecConfig: the bot is serving with no thread yet; an operator has stored
\* age thresholds, each a valid duration or a string that is no ISO-8601
\* duration.
StoredAges(valid) == {valid, Malformed}

InitConfig ==
    /\ now = 0
    /\ connected = TRUE
    /\ logged_out = FALSE
    /\ whitelist = {}
    /\ blocked = [s \in Senders |-> NoEntry]
    /\ blocked_db = blocked
    /\ \E c \in AgeConfigs :
          /\ account_age \in StoredAges(c.account_age)
          /\ guild_age \in StoredAges(c.guild_age)
    /\ created_at = [s \in Senders |-> 0]
    /\ joined_at = Membership
    /\ hs = [h \in Handlers |-> IdleHandler]
    /\ threads = {}
    /\ channels = {}
    /\ lock = [s \in Senders |-> 0]
    /\ relayed = {}
    /\ closures = [s \in Senders |-> NoClosure]
    /\ closures_db = closures
    /\ timers = {}
    /\ ready = [pc |-> "done", items |-> <<>>, i |-> 1]
    /\ close_calls = {}
    /\ closed = {}
    /\ recipient_thread_close = "false"
    /\ rx = NoReaction
    /\ reply_without_command = "false"
    /\ ev = NoEvent
    /\ ids = NoIds
    /\ ids_db = NoIds
    /\ live = {}

SpecConfig == InitConfig /\ [][Next]_vars

\* SpecLookup: an operator has stored a log channel, a main category and a
\* modmail guild (or left them unset); they exist or have gone meanwhile.
StoredIds ==
    {[log_channel_id |-> l, main_category_id |-> c, modmail_guild_id |-> g] :
        l \in {NoId, ModmailChannel}, c \in {NoId, CustomCategory},
        g \in {NoId, OtherGuild}}

InitLookup ==
    /\ Serving
    /\ ids \in StoredIds
    /\ ids_db = ids
    /\ live = Entities
    /\ closures = [s \in Senders |-> NoClosure]
    /\ closures_db = closures
    /\ timers = {}
    /\ ready = [pc |-> "done", items |-> <<>>, i |-> 1]
    /\ recipient_thread_close = "false"

NextLookup ==
    \/ \E key \in ConfigKeys : Lookup(key)
    \/ \E e \in Entities : EntityDeleted(e)
    \/ ConfigUpdated

SpecLookup == InitLookup /\ [][NextLookup]_vars

\* SpecEdit: reactions and edits arrive while operators close threads.
InitEdit ==
    /\ Serving
    /\ ids = NoIds
    /\ ids_db = NoIds
    /\ live = {}
    /\ closures = [s \in Senders |-> NoClosure]
    /\ closures_db = closures
    /\ timers = {}
    /\ ready = [pc |-> "done", items |-> <<>>, i |-> 1]
    /\ recipient_thread_close = "false"

NextEdit ==
    \/ \E e \in ReactionEvents : OnRawReactionAdd(e)
    \/ \E e \in EditEvents : OnMessageEdit(e)
    \/ \E r \in Senders : OperatorClose(r, 0)

SpecEdit == InitEdit /\ [][NextEdit]_vars

\* SpecDelete: channels and categories of the main guild are deleted while
\* operators close threads and the three properties are read.
InitDelete ==
    /\ Serving
    /\ ids \in {c \in StoredIds : c.modmail_guild_id = NoId}
    /\ ids_db = ids
    /\ live = Entities \ {OtherGuild}
    /\ closures = [s \in Senders |-> NoClosure]
    /\ closures_db = closures
    /\ timers = {}
    /\ ready = [pc |-> "done", items |-> <<>>, i |-> 1]
    /\ recipient_thread_close = "false"

NextDelete ==
    \/ \E e \in DeleteEvents : ChannelDeleted(e)
    \/ OnGuildChannelDelete
    \/ \E key \in ConfigKeys : Lookup(key)
    \/ \E r \in Senders : OperatorClose(r, 0)

SpecDelete == InitDelete /\ [][NextDelete]_vars

\* SpecRoute: messages of users, operators and bots arrive in private and
\* guild channels; no age threshold is configured, so every private message
\* of a user is relayed; operators close threads.
InitRoute ==
    /\ now = 0
    /\ connected = TRUE
    /\ logged_out = FALSE
    /\ whitelist = {}
    /\ blocked = [s \in Senders |-> NoEntry]
    /\ blocked_db = blocked
    /\ account_age = Unset
    /\ guild_age = Unset
    /\ created_at = [s \in Senders |-> 0]
    /\ joined_at = Membership
    /\ hs = [h \in Handlers |-> IdleHandler]
    /\ channels = {OldChannel(1)}
    /\ threads = channels
    /\ lock = [s \in Senders |-> 0]
    /\ relayed = {}
    /\ closures = [s \in Senders |-> NoClosure]
    /\ closures_db = closures
    /\ timers = {}
    /\ ready = [pc |-> "done", items |-> <<>>, i |-> 1]
    /\ close_calls = {}
    /\ closed = {}
    /\ recipient_thread_close = "false"
    /\ rx = NoReaction
    /\ reply_without_command \in {"true", "false", "maybe"}
    /\ ev = NoEvent
    /\ ids = NoIds
    /\ ids_db = NoIds
    /\ live = {}

NextRoute ==
    \/ \E e \in MessageEvents : OnMessageEvent(e)
    \/ \E h \in Handlers :
        \/ ProcessBlocked(h)
        \/ ReactionAdded(h)
        \/ LockAcquired(h)
        \/ ChannelCreated(h)
        \/ ThreadCreated(h)
    \/ \E r \in Senders : OperatorClose(r, 0)

SpecRoute == InitRoute /\ [][NextRoute]_vars

C2_RelayOnlyAfterAccept ==
    \A h \in Handlers :
        ( \/ hs[h].pc \in {"lock_wait", "create_channel", "creation_notice"}
          \/ \E th \in threads : th.id = h
          \/ \E m \in relayed : m.msg = h )
        => hs[h].result = "Accept"

\* a message of a blocked sender was evaluated and dropped, another one of an
\* accepted sender was relayed
C2_Witness ==
    \E h, g \in Handlers :
        /\ hs[h].pc = "done" /\ hs[h].result = "Reject"
        /\ \A m \in relayed : m.msg # h
        /\ hs[g].result = "Accept" /\ \E m \in relayed : m.msg = g

\* the step in which handler h runs the synchronous part of _process_blocked
\* (lines 486-617), and the step in which _process_blocked returns
Evaluates(h) == hs[h].pc = "retrieve_emoji" /\ hs'[h].pc # "retrieve_emoji"
Returns(h) == hs[h].pc = "add_reaction" /\ hs'[h].pc # "add_reaction"

\* C3: once the evaluation of a whitelisted sender has run, the block map
\* holds no entry for the sender, and the evaluation returns Accept.
C3_WhitelistAccepts ==
    \A h \in Handlers :
        ( /\ hs[h].author \in whitelist
          /\ hs[h].pc \notin {"idle", "retrieve_emoji"} )
        => /\ blocked[hs[h].author] = NoEntry
           /\ hs[h].pc # "add_reaction" => hs[h].result = "Accept"

\* a whitelisted sender whose account age was not met and who had a permanent
\* operator block was evaluated and accepted
C3_Witness ==
    \E h, g \in Handlers :
        /\ hs[h].author \in whitelist
        /\ hs[h].pc = "add_reaction"
        /\ hs[h].seen = OperatorReason(NoEnd)
        /\ MinAccountAge(hs[h].author) > hs[h].t
        /\ hs[g].author = hs[h].author
        /\ hs[g].pc = "done" /\ hs[g].result = "Accept"

C5_AsClaimed ==
    [][\A h \in Handlers :
        LET a == hs[h].author IN
        /\ ( /\ Evaluates(h) /\ a \notin whitelist
             /\ MinAccountAge(a) > now )
           => StartsWithNewAccount(blocked'[a])
        /\ ( /\ Returns(h) /\ a \notin whitelist
             /\ MinAccountAge(a) > hs[h].t )
           => hs'[h].result = "Reject"]_vars

\* C5 amended: for a sender not whitelisted whose account age is not met, the
\* evaluation picks the blocked reaction, creates a new-account block when
\* the sender has no entry and leaves an entry that is there as it is, of
\* whatever kind; it returns Reject iff the sender still has an entry in the
\* block map when it returns.
C5_AccountAgeNotMet ==
    [][\A h \in Handlers :
        LET a == hs[h].author IN
        /\ ( /\ Evaluates(h) /\ a \notin whitelist
             /\ MinAccountAge(a) > now )
           => /\ blocked'[a] = ( IF blocked[a] = NoEntry
                                 THEN NewAccountReason ELSE blocked[a] )
              /\ hs'[h].reaction = "blocked_emoji"
        /\ ( /\ Returns(h) /\ a \notin whitelist
             /\ MinAccountAge(a) > hs[h].t )
           => ( hs'[h].result = "Reject" <=> blocked[a] # NoEntry )]_vars

\* the account branch was taken once with no entry (block created, message
\* rejected) and once on an operator block, which is still the stored entry
C5_Witness ==
    \E h, g \in Handlers, s, r \in Senders :
        /\ s # r /\ whitelist = {}
        /\ hs[h].author = s /\ hs[g].author = r
        /\ hs[h].branch = "account" /\ hs[h].seen = NoEntry
        /\ hs[h].pc = "add_reaction" /\ StartsWithNewAccount(blocked[s])
        /\ hs[g].branch = "account" /\ hs[g].seen = OperatorReason(NoEnd)
        /\ hs[g].pc = "add_reaction" /\ blocked[r] = OperatorReason(NoEnd)

\* C6 as claimed: for a sender not whitelisted whose account age is met and
\* whose guild age is not, the evaluation leaves a recently-joined block for
\* the sender and returns Reject; without a joined_at no evaluation creates a
\* recently-joined block.
C6_AsClaimed ==
    [][\A h \in Handlers :
        LET a == hs[h].author IN
        /\ ( /\ Evaluates(h) /\ a \notin whitelist
             /\ MinAccountAge(a) <= now
             /\ joined_at[a] # NoJoin
             /\ joined_at[a] + Duration(guild_age) > now )
           => StartsWithRecentlyJoined(blocked'[a])
        /\ ( /\ Returns(h) /\ a \notin whitelist
             /\ MinAccountAge(a) <= hs[h].t
             /\ joined_at[a] # NoJoin
             /\ joined_at[a] + Duration(guild_age) > hs[h].t )
           => hs'[h].result = "Reject"
        /\ ( Evaluates(h) /\ joined_at[a] = NoJoin )
           => ( StartsWithRecentlyJoined(blocked'[a])
                    => StartsWithRecentlyJoined(blocked[a]) )]_vars

\* C6 amended: for a sender not whitelisted whose account age is met and whose
\* guild age is not, the evaluation picks the blocked reaction, creates a
\* recently-joined block when the sender has no entry and leaves an entry
\* that is there as it is; it returns Reject iff the sender still has an
\* entry when it returns. For a sender without a joined_at the guild age
\* counts as met: the guild branch is not taken and no recently-joined block
\* is created.
C6_GuildAgeNotMet ==
    [][\A h \in Handlers :
        LET a == hs[h].author IN
        /\ ( /\ Evaluates(h) /\ a \notin whitelist
             /\ MinAccountAge(a) <= now
             /\ joined_at[a] # NoJoin
             /\ joined_at[a] + Duration(guild_age) > now )
           => /\ blocked'[a] = ( IF blocked[a] = NoEntry
                                 THEN RecentlyJoinedReason ELSE blocked[a] )
              /\ hs'[h].reaction = "blocked_emoji"
        /\ ( /\ Returns(h) /\ a \notin whitelist
             /\ MinAccountAge(a) <= hs[h].t
             /\ joined_at[a] # NoJoin
             /\ joined_at[a] + Duration(guild_age) > hs[h].t )
           => ( hs'[h].result = "Reject" <=> blocked[a] # NoEntry )
        /\ ( Evaluates(h) /\ a \notin whitelist /\ joined_at[a] = NoJoin )
           => /\ hs'[h].branch # "guild"
              /\ StartsWithRecentlyJoined(blocked'[a])
                    => StartsWithRecentlyJoined(blocked[a])]_vars

\* a member was rejected in the guild branch with a block created there, and
\* a sender without a joined_at was evaluated before the guild age had passed
\* since that evaluation's `now` and was accepted
C6_Witness ==
    \E h, g \in Handlers :
        /\ whitelist = {}
        /\ hs[h].pc = "add_reaction"
        /\ joined_at[hs[h].author] # NoJoin
        /\ hs[h].branch = "guild" /\ hs[h].seen = NoEntry
        /\ StartsWithRecentlyJoined(blocked[hs[h].author])
        /\ hs[g].pc = "add_reaction"
        /\ joined_at[hs[g].author] = NoJoin
        /\ hs[g].branch = "clear"
        /\ blocked[hs[g].author] = NoEntry

\* the stored reason is an operator's, with or without a time
IsOperatorReason(r) == r.prefix = "operator"

\* C7 as claimed: for a sender not whitelisted with both ages met and an
\* operator block, an evaluation removes the entry and returns Accept when
\* the reason's time is at or before now, and otherwise returns Reject and
\* leaves the stored reason as it is.
C7_AsClaimed ==
    [][\A h \in Handlers :
        LET a == hs[h].author IN
        /\ ( /\ Evaluates(h) /\ a \notin whitelist
             /\ MinAccountAge(a) <= now /\ MinGuildAge(a, now) <= now
             /\ IsOperatorReason(blocked[a]) )
           => blocked'[a] = ( IF blocked[a].end # NoEnd /\ blocked[a].end <= now
                              THEN NoEntry ELSE blocked[a] )
        /\ ( /\ Returns(h) /\ a \notin whitelist
             /\ MinAccountAge(a) <= hs[h].t /\ MinGuildAge(a, hs[h].t) <= hs[h].t
             /\ IsOperatorReason(hs[h].seen) )
           => IF hs[h].seen.end # NoEnd /\ hs[h].seen.end <= hs[h].t
              THEN hs'[h].result = "Accept"
              ELSE hs'[h].result = "Reject" /\ blocked'[a] = hs[h].seen]_vars

\* C8: in the account-age branch the notice is sent iff the sender had no
\* entry or the stored reason is a new-account one; in the guild-age branch
\* iff the sender had no entry or the stored reason is a recently-joined one.
C8_NoticeOnlyForSameKind ==
    [][\A h \in Handlers :
        LET a == hs[h].author IN
        /\ ( /\ Evaluates(h) /\ a \notin whitelist
             /\ MinAccountAge(a) > now )
           => ( hs'[h].pc = "send_notice"
                <=> ( blocked[a] = NoEntry \/ StartsWithNewAccount(blocked[a]) ) )
        /\ ( /\ Evaluates(h) /\ a \notin whitelist
             /\ MinAccountAge(a) <= now /\ MinGuildAge(a, now) > now )
           => ( hs'[h].pc = "send_notice"
                <=> ( blocked[a] = NoEntry
                        \/ StartsWithRecentlyJoined(blocked[a]) ) )]_vars

\* one evaluation in the guild-age branch is sending the notice for a stored
\* recently-joined block, another took the account-age branch on an operator
\* block and sent none
C8_Witness ==
    \E h, g \in Handlers :
        /\ hs[h].pc = "send_notice" /\ hs[h].branch = "guild"
        /\ StartsWithRecentlyJoined(hs[h].seen)
        /\ hs[g].pc = "add_reaction" /\ hs[g].branch = "account"
        /\ IsOperatorReason(hs[g].seen) /\ ~hs[g].notice

\* C9: when an evaluation returns, the database copy of the block map differs
\* from the cache only where another evaluation has created an entry and has
\* not reached its config.update() yet.
C9_FlushedBeforeReturn ==
    [][\A h \in Handlers :
        Returns(h) =>
            \A s \in Senders :
                blocked[s] # blocked_db[s] =>
                    \E g \in Handlers \ {h} :
                        /\ hs[g].pc = "send_notice"
                        /\ hs[g].author = s /\ hs[g].changed]_vars

\* one evaluation has created an entry and another has removed one, both are
\* about to return, and the database copy equals the cache
C9_Witness ==
    \E h, g \in Handlers :
        /\ hs[h].pc = "add_reaction" /\ hs[g].pc = "add_reaction"
        /\ hs[h].author \notin whitelist /\ hs[g].author \notin whitelist
        /\ hs[h].seen = NoEntry /\ blocked[hs[h].author] # NoEntry
        /\ hs[g].seen # NoEntry /\ blocked[hs[g].author] = NoEntry
        /\ blocked_db = blocked

\* C10: every closure that on_ready found at or past its time, for a
\* recipient whose thread exists, was handed to thread.close with after = 0
\* and was carried out by that call.
C10_OverdueClosedAtOnce ==
    \A c \in close_calls :
        c.remaining <= 0 =>
            /\ c.after = 0
            /\ [recipient |-> c.recipient, chan |-> c.chan, by |-> "on_ready"]
                    \in closed
            /\ \A th \in threads : th.id # c.chan

\* a closure whose time had passed before on_ready reached it was closed
\* there, and one that was still ahead was scheduled
C10_Witness ==
    /\ \E c \in close_calls :
        /\ c.remaining < 0 /\ c.after = 0
        /\ [recipient |-> c.recipient, chan |-> c.chan, by |-> "on_ready"]
                \in closed
    /\ \E c \in close_calls : c.remaining > 0 /\ c.after > 0

\* on_ready calls thread.close in this step; the call made
RecoveryCloses == close_calls' # close_calls
RecoveryCall == CHOOSE c \in close_calls' \ close_calls : TRUE

\* C11: when on_ready calls thread.close for a closure that is still
\* persisted and whose time is ahead, the delay is the record's time minus
\* now, the other arguments are the record's values (auto_close false when
\* the record has none), and after the call the closure is persisted and
\* armed for the record's time.
C11_FutureClosureRearmed ==
    [][( /\ RecoveryCloses
         /\ closures_db[RecoveryCall.recipient] # NoClosure
         /\ closures_db[RecoveryCall.recipient].time > now )
       => LET c == RecoveryCall
              rec == closures_db[c.recipient]
          IN  /\ c.after = rec.time - now
              /\ c.closer_id = rec.closer_id
              /\ c.silent = rec.silent
              /\ c.delete_channel = rec.delete_channel
              /\ c.message = rec.message
              /\ c.auto_close = ( IF rec.auto_close = "absent"
                                  THEN "false" ELSE rec.auto_close )
              /\ \A x \in timers' :
                    x.recipient = c.recipient => x.time = rec.time
              /\ \E x \in timers' : x.recipient = c.recipient
              /\ closures_db'[c.recipient] = rec
              /\ \E th \in threads' : th.recipient = c.recipient]_vars

\* recovery has re-armed a closure whose record has no auto_close and one
\* whose record has it, both ahead of now at the call
C11_Witness ==
    \E c, d \in close_calls :
        /\ c.remaining > 0 /\ c.after = c.remaining /\ c.auto_close = "false"
        /\ d.remaining > 0 /\ d.after = d.remaining /\ d.auto_close = "true"
        /\ \E x \in timers : x.recipient = c.recipient
        /\ \E x \in timers : x.recipient = d.recipient

\* on_ready runs a pass of its loop in this step; the items it iterates over,
\* and the registry that threads.find (line 417) looks into
RecoveryPass ==
    /\ ready.pc \in {"populate_cache", "config_update", "thread_close"}
    /\ ready' # ready
RecoveryItems ==
    IF ready.pc = "populate_cache" THEN ClosureItems(closures) ELSE ready.items
RecoveryRegistry ==
    IF ready.pc = "populate_cache" THEN PopulateCache ELSE threads

DueNotRecovered(r) ==
    /\ ready.pc # "done"
    /\ closures_db[r] # NoClosure
    /\ closures_db[r].time <= now
    /\ \A x \in timers : x.recipient # r

\* C13 as claimed: while a persisted closure that is due has not been handled
\* by on_ready, no message is in block evaluation, in find_or_create or in
\* thread.send.
C13_AsClaimed ==
    \A h \in Handlers :
        hs[h].pc \in {"send_notice", "add_reaction", "lock_wait",
                      "create_channel", "creation_notice"}
            => \A r \in Senders : ~DueNotRecovered(r)

\* a reaction event was handled in this step
ReactionHandled == rx' # rx

\* recipient_thread_close is enabled
ReactionCloseEnabled == StrToBool(recipient_thread_close) = "True"

\* the thread of recipient u is closed by the reaction handler in this step
ClosedByReaction(u) ==
    \E th \in threads :
        /\ th.recipient = u
        /\ th \notin threads'
        /\ [recipient |-> u, chan |-> th.id, by |-> "reaction"] \in closed' \ closed

UnrelatedMessage(e) ==
    /\ e.where = "guild"
    /\ \/ e.ts = NoTs
       \/ ~e.ref
       \/ \A th \in threads : th.id # e.gchan

\* C15 as claimed: a reaction event leads to a close only in a private
\* channel and to a mirrored reaction only in a relay channel; an event from
\* a bot, or on a message that belongs to no thread, does nothing and ends
\* without an error.
C15_AsClaimed ==
    [][ReactionHandled
       => /\ rx'.action = "close" => rx'.where \in {"dm", "dm_uncached"}
          /\ ( closed' # closed \/ threads' # threads ) => rx'.action = "close"
          /\ rx'.action = "relay" => rx'.where = "guild"
          /\ ( rx'.is_bot \/ ( rx'.found /\ UnrelatedMessage(rx') ) )
             => /\ rx'.action \in {"return", "end"}
                /\ threads' = threads
                /\ closed' = closed]_vars

\* the pending closure of recipient r is cancelled in this step: its record
\* goes while the thread is not closed
ClosureCancelled(r) ==
    /\ closures_db[r] # NoClosure
    /\ closures_db'[r] = NoClosure
    /\ \A c \in closed' \ closed : c.recipient # r
    /\ Find(r) # {}

\* C16 as claimed: cancelling a pending closure leaves the thread in the
\* registry with no persisted record and no armed timer, and no close is
\* carried out or issued later for a closure that is no longer pending.
C16_AsClaimed ==
    [][\A r \in Senders :
        /\ ClosureCancelled(r)
           => /\ closures'[r] = NoClosure
              /\ \A x \in timers' : x.recipient # r
              /\ Find(r) \subseteq threads'
        /\ ( \/ \E c \in closed' \ closed :
                    c.recipient = r /\ c.by \in {"timer", "on_ready"}
             \/ RecoveryCloses /\ RecoveryCall.recipient = r )
           => closures_db[r] # NoClosure]_vars

\* the timers armed for recipient r
PendingTimers(r) == {x \in timers : x.recipient = r}

EvaluatesAges(h) == Evaluates(h) /\ ~IsWhitelisted(hs[h].author)

\* C18 as claimed: an evaluation that meets a malformed account-age or
\* guild-age threshold removes the value, does not take the malformed
\* requirement as unmet, and ends with a decision instead of an error.
C18_AsClaimed ==
    [][\A h \in Handlers :
        EvaluatesAges(h) /\ Malformed \in {account_age, guild_age}
        => /\ account_age = Malformed
              => account_age' = Unset /\ hs'[h].branch # "account"
           /\ guild_age = Malformed
              => guild_age' = Unset /\ hs'[h].branch # "guild"
           /\ hs'[h].pc # "error"]_vars

\* C19: once the database check of on_connect has failed and the bot has
\* logged out, the connected flag is not set, the cache has not been
\* refreshed from the database, and nothing that waits for the connected
\* state has moved: no message handler has started, on_ready is still
\* waiting, no closure was recovered and nothing was relayed.
C19_NoServiceWithoutDatabase ==
    logged_out =>
        /\ ~connected
        /\ closures = [s \in Senders |-> NoClosure]
        /\ \A h \in Handlers : hs[h].pc = "idle"
        /\ ready.pc = "wait_for_connected"
        /\ close_calls = {} /\ closed = {} /\ relayed = {}
        /\ threads = {} /\ timers = {}

\* the check failed while closures were waiting in the database, and time
\* has passed since
C19_Witness ==
    /\ logged_out
    /\ now > StartTime
    /\ \E r \in Senders : closures_db[r] # NoClosure /\ closures_db[r].time <= now

\* the stored identifier resolves to no guild, category or channel
StaleId(e) == e # NoId /\ e \notin live \cup {AsChannel(x) : x \in channels}

\* C20 as claimed: a lookup that finds the stored log channel, main category
\* or modmail guild gone takes the stale identifier out of the persisted
\* config in the same step.
C20_AsClaimed ==
    [][\A key \in ConfigKeys :
        StaleId(ids[key]) /\ ids'[key] # ids[key]
        => ids_db'[key] # ids[key]]_vars

\* the stored thresholds are durations (or unset)
ValidAges == Malformed \notin {account_age, guild_age}

\* handler h carries the only message its author has sent so far
FirstMessage(h) == \A g \in Handlers \ {h} : hs[g].author # hs[h].author

\* C21: end to end.  A sender who is not whitelisted, has no block entry and
\* whose account is younger than the threshold gets a new-account block, the
\* wait-time notice and the blocked reaction (the thresholds being valid
\* durations); the message is rejected and no
\* thread is created or message relayed for it.  A message of the same sender
\* evaluated once both ages are met clears the new-account block, is accepted
\* with the block entry gone, and when its handler ends a thread of the sender
\* exists and the message is in its relay channel.
C21_EndToEnd ==
    [][\A h \in Handlers :
        LET a == hs[h].author IN
        ValidAges =>
        /\ ( /\ Evaluates(h) /\ a \notin whitelist
             /\ blocked[a] = NoEntry /\ MinAccountAge(a) > now )
           => /\ blocked'[a] = NewAccountReason
              /\ hs'[h].pc = "send_notice"
              /\ hs'[h].reaction = "blocked_emoji"
        /\ ( /\ Returns(h) /\ FirstMessage(h)
             /\ hs[h].branch = "account" /\ hs[h].seen = NoEntry )
           => /\ hs'[h].pc = "done" /\ hs'[h].result = "Reject"
              /\ threads' = threads /\ channels' = channels
              /\ relayed' = relayed
        /\ ( /\ Evaluates(h) /\ a \notin whitelist
             /\ StartsWithNewAccount(blocked[a])
             /\ MinAccountAge(a) <= now /\ MinGuildAge(a, now) <= now )
           => /\ blocked'[a] = NoEntry
              /\ hs'[h].pc = "add_reaction"
              /\ hs'[h].reaction = "sent_emoji"
        /\ ( /\ Returns(h) /\ hs[h].branch = "entry"
             /\ StartsWithNewAccount(hs[h].seen) )
           => /\ hs'[h].result = "Accept"
              /\ blocked[a] = NoEntry /\ blocked_db[a] = NoEntry
        /\ ( hs[h].pc # "done" /\ hs'[h].pc = "done" /\ hs'[h].result = "Accept" )
           => \E th \in threads' :
                 /\ th.recipient = hs'[h].author
                 /\ [msg |-> h, chan |-> th.id] \in relayed']_vars

\* the first message of a sender was rejected, the second one, sent after
\* the threshold, was accepted and relayed into the sender's thread, and the
\* block entry is gone
C21_Witness ==
    \E s \in Senders, th \in threads :
        /\ hs[1].author = s /\ hs[1].pc = "done" /\ hs[1].result = "Reject"
        /\ hs[2].author = s /\ hs[2].pc = "done" /\ hs[2].result = "Accept"
        /\ th.recipient = s /\ channels = {th}
        /\ relayed = {[msg |-> 2, chan |-> th.id]}
        /\ blocked[s] = NoEntry /\ blocked_db[s] = NoEntry
        /\ account_age = 1 /\ MinAccountAge(s) <= now

\* on_message_edit has handled an event in this step
EditHandled == ev' # ev /\ ev'.handler = "on_message_edit"

\* C22 as claimed: a reaction whose message is not found, and an edit of a
\* private message whose author has no thread or whose copy is not in the
\* relay channel, close nothing, mirror nothing, edit nothing and end without
\* an error.
C22_AsClaimed ==
    [][/\ ReactionHandled /\ ~rx'.is_bot /\ ~rx'.found
          => /\ rx'.action = "return"
             /\ threads' = threads /\ closed' = closed
       /\ ( /\ EditHandled /\ ~ev'.is_bot /\ ev'.where = "dm"
            /\ (Find(ev'.author) = {} \/ ~ev'.flag) )
          => /\ ev'.action \in {"return", "end"}
             /\ threads' = threads /\ closed' = closed]_vars

\* C23 as claimed: when an evaluation returns, the reaction it chose agrees
\* with the decision it returns: the sent emoji with Accept, the blocked
\* emoji with Reject.
C23_AsClaimed ==
    [][\A h \in Handlers :
        Returns(h) =>
            /\ hs[h].reaction = "sent_emoji" <=> hs'[h].result = "Accept"
            /\ hs[h].reaction = "blocked_emoji" <=> hs'[h].result = "Reject"]_vars

\* C24: the block map changes only in the evaluation step of a handler, and
\* that step leaves the entries of all other senders as they are, changes the
\* author's entry only by creating it when absent or by removing it, and
\* changes nothing when the author is not whitelisted, has no entry and meets
\* both age conditions.
C24_EvaluationFrame ==
    [][/\ blocked' # blocked => \E h \in Handlers : Evaluates(h)
       /\ \A h \in Handlers :
            LET a == hs[h].author IN
            Evaluates(h) =>
                /\ \A r \in Senders \ {a} : blocked'[r] = blocked[r]
                /\ blocked[a] # NoEntry => blocked'[a] \in {blocked[a], NoEntry}
                /\ ( /\ a \notin whitelist /\ blocked[a] = NoEntry
                     /\ MinAccountAge(a) <= now /\ MinGuildAge(a, now) <= now )
                   => blocked' = blocked /\ hs'[h].reaction = "sent_emoji"]_vars

\* an evaluation in the account branch has kept the operator block of its
\* author, and an evaluation of the other sender, who has no entry and meets
\* both ages, has left the map as it was
C24_Witness ==
    \E h, g \in Handlers :
        /\ hs[h].pc = "add_reaction" /\ hs[h].branch = "account"
        /\ IsOperatorReason(hs[h].seen) /\ blocked[hs[h].author] = hs[h].seen
        /\ hs[g].pc = "add_reaction" /\ hs[g].branch = "clear"
        /\ hs[g].author # hs[h].author /\ blocked[hs[g].author] = NoEntry
        /\ hs[g].seen = NoEntry

\* populate_cache, started by on_ready, has returned
CacheReady == ready.pc \notin {"wait_for_connected", "populate_cache"}

\* C25 as claimed: no message handler is inside find_or_create before
\* populate_cache has returned, and no recipient has two relay channels.
C25_AsClaimed ==
    /\ \A h \in Handlers :
          hs[h].pc \in {"lock_wait", "create_channel", "creation_notice"}
              => CacheReady
    /\ \A r \in Senders :
          Cardinality({c \in channels : c.recipient = r}) <= 1

\* on_guild_channel_delete handles the reported deletion in this step
DeletionHandled ==
    /\ ev.handler = "on_guild_channel_delete"
    /\ ev.action = "pending" /\ ev'.action # "pending"

\* the deleted channel is the relay channel of a thread in the registry
DeletedRelay == {th \in threads : th.id = ev.chan}

\* C26 as claimed: a deletion by the bot itself closes nothing; the deletion,
\* by someone else, of the relay channel of a thread closes that thread at
\* once with silent = true, delete_channel = false and the deleting operator
\* as closer; the deletion of a category, or of a log channel that is no
\* relay channel, closes nothing.
C26_AsClaimed ==
    [][DeletionHandled =>
        /\ ev.flag => closed' = closed /\ threads' = threads
        /\ ~ev.flag /\ ev.kind = "text" /\ DeletedRelay # {}
           => /\ threads' = threads \ DeletedRelay
              /\ \E c \in closed' \ closed :
                    c.chan = ev.chan /\ c.by = "channel_delete"
              /\ ev'.call = [closer |-> ev.author, silent |-> TRUE,
                             delete_channel |-> FALSE]
        /\ ( \/ ev.kind = "category"
             \/ ids.log_channel_id.id = ev.chan /\ DeletedRelay = {} )
           => closed' = closed /\ threads' = threads]_vars

\* C27 as claimed: the stored log channel is never the relay channel of a
\* thread in the registry.
C27_AsClaimed ==
    \A th \in threads : ids.log_channel_id # AsChannel(th)

\* handler h starts process_modmail in this step
Starts(h) == hs[h].pc = "idle" /\ hs'[h].pc # "idle"

\* C28: a message written by a bot is dropped (no handler starts, nothing is
\* created or relayed, no command runs); process_modmail starts only for a
\* private message of a non-bot, and such a message is handed to
\* process_modmail only: no command is invoked and no reply or note is made
\* for it.  Threads are created and messages relayed by process_modmail
\* handlers only.
C28_MessageRouting ==
    [][/\ ev'.handler = "on_message" /\ ev'.is_bot /\ ev' # ev
          => /\ ev'.action = "return"
             /\ hs' = hs /\ threads' = threads /\ channels' = channels
             /\ relayed' = relayed
       /\ \A h \in Handlers :
            Starts(h) => /\ ev'.handler = "on_message" /\ ~ev'.is_bot
                         /\ ev'.where = "dm" /\ ev'.author = hs'[h].author
                         /\ ev'.action = "process_modmail"
       /\ ev'.handler = "on_message" /\ ~ev'.is_bot /\ ev'.where = "dm" /\ ev' # ev
          => /\ ev'.action = "process_modmail"
             /\ \E h \in Handlers : Starts(h)
       /\ (threads' \ threads # {} \/ relayed' # relayed)
          => \E h \in Handlers :
                /\ hs[h].pc \in {"add_reaction", "lock_wait", "create_channel",
                                 "creation_notice"}
                /\ hs[h].author \in Senders]_vars

\* a bot's private message was dropped after a user's private message had
\* been relayed into the thread created for it
C28_Witness ==
    /\ ev.handler = "on_message" /\ ev.is_bot /\ ev.where = "dm"
    /\ ev.action = "return"
    /\ \E h \in Handlers, th \in threads :
          /\ hs[h].pc = "done" /\ hs[h].author = 2 /\ th.recipient = 2
          /\ [msg |-> h, chan |-> th.id] \in relayed

\* on_message has handled a non-command message of an operator in a guild
\* channel in this step
NonCommandHandled ==
    /\ ev' # ev
    /\ ev'.handler = "on_message" /\ ~ev'.is_bot /\ ev'.where = "guild"
    /\ ev'.kind \in {"text", "unknown"}

\* the channel of the message handled in this step is the relay channel of a
\* thread
InRelayChannel == \E th \in threads : th.id = ev'.chan

====
